---- MODULE Spec2Model ----
(***************************************************************************)
(* Model of the payment / ledger core of the construction CRM backend:     *)
(*   - payment milestones with the admin/client acknowledgment workflow    *)
(*     (src/routes/payments.js),                                           *)
(*   - material orders, their part payments and the vendor counters        *)
(*     (src/unnamed/part_000, the materials router),                       *)
(*   - raw-material orders and their payments (src/unnamed/part_005),      *)
(*   - worker logs and their wages (src/routes/workforce.js),              *)
(*   - leads and their conversion (src/unnamed/part_000, the leads router),*)
(*   - the financial overview and the weekly workforce trend               *)
(*     (src/unnamed/part_004).                                             *)
(* The database tables are the state; every route handler is one action.   *)
(* Money is modelled in whole currency units.                              *)
(***************************************************************************)
EXTENDS Integers, Sequences, FiniteSets, Bags, TLC

\* ------------------------------------------------------------------ bounds
MaxAmount == 2          \* largest amount in a request body
MaxPaid == 3            \* paidAmount is kept within -MaxDebt .. MaxPaid
MaxDebt == 1
MaxNotifications == 1   \* rows of the notification table
MaxPartPayments == 2    \* PartPayment rows per milestone
MaxQuantity == 1        \* largest quantity in a request body
MaxPrice == 2           \* largest unit price in a request body
MaxRecords == 2         \* child payment rows per order
MaxOrders == 2          \* a vendor's totalOrders counter is kept within this
MaxHistory == 3         \* entries of a lead's stage history
MaxConversions == 2     \* projects created from leads
MaxWeeks == 2           \* largest number of weeks asked of the weekly trend

\* ------------------------------------------------------------ vocabulary
Admin == "admin"
Client == "client"
Other == "other"        \* a customer who is the client of no project here
Users == {Admin, Client, Other}
ProjectIds == {"p1"}
Budget == 2             \* the budget of a project, in currency units
Percentages == {50, 100}
PayIds == {1, 2}
VendorIds == {"v1"}
NoVendor == ""
MaterialIds == {1, 2}
RawOrderIds == {1, 2}
PostedAmounts == -1..MaxAmount
WorkerLogIds == {1, 2}
LeadIds == {1}
CallerIds == {"a", "b"}

VARIABLES
  payments,        \* table Payment: id -> row
  partPayments,    \* table PartPayment: paymentId -> bag of amounts
  projects,        \* table Project: id -> row
  notifications,   \* table Notification: sequence of rows
  materials,       \* table Material: id -> row
  materialPayments,\* table MaterialPayment: materialId -> bag of rows
  vendors,         \* table Vendor: id -> row of counters
  rawOrders,       \* table RawMaterialOrder: id -> row
  rawPayments,     \* table RawMaterialPayment: orderId -> bag of amounts
  workerLogs,      \* table WorkerLog: id -> row
  leads,           \* table Lead: id -> row
  inflight,        \* per caller: the request being served and what it has read
  overview,        \* the data of the last GET /api/analytics/...
  resp             \* the last request served and its HTTP status

payVars == <<payments, partPayments, projects, notifications>>
matVars == <<materials, materialPayments, vendors, rawOrders, rawPayments>>
otherVars == <<workerLogs, leads, inflight, overview>>

\* a row of table f is replaced / added
Put(f, k, v) == (k :> v) @@ f

RECURSIVE SumOver(_, _, _)
\* sum of field value g[k] over the keys in S (Array.prototype.reduce)
SumOver(S, g, acc) ==
  IF S = {} THEN acc
  ELSE LET k == CHOOSE x \in S : TRUE
       IN SumOver(S \ {k}, g, acc + g[k])

\* one more row in a child table
AddRow(rows, row) == rows (+) SetToBag({row})

\* a request body: the amount may be left out
Body(hasAmount, amount, isPartPayment) ==
  [hasAmount |-> hasAmount, amount |-> amount, isPartPayment |-> isPartPayment]

NoBody == Body(FALSE, 0, FALSE)

\* the bodies a caller may send to confirm-payment
Bodies ==
  {Body(FALSE, 0, isPart) : isPart \in BOOLEAN} \cup
  {Body(TRUE, a, isPart) : a \in -1..MaxAmount, isPart \in BOOLEAN}

\* user is the authenticated user of the request (req.user), where the
\* model tells the users apart
Response(op, id, code) ==
  [op |-> op, id |-> id, code |-> code, body |-> NoBody, user |-> ""]

ResponseTo(op, id, code, body) ==
  [op |-> op, id |-> id, code |-> code, body |-> body, user |-> ""]

ResponseBy(user, op, id, code) == [Response(op, id, code) EXCEPT !.user = user]

Notification(userId, type, title) == [userId |-> userId, type |-> type, title |-> title]

\* prisma.notification.create, guarded by the recipient being set
Notify(userId, type, title) ==
  IF userId # "" THEN Append(notifications, Notification(userId, type, title))
  ELSE notifications

NotifyRoom(userId) == userId = "" \/ Len(notifications) < MaxNotifications

\* the id the database gives the next row of a table
NextId(f, Ids) == CHOOSE i \in Ids \ DOMAIN f : \A j \in Ids \ DOMAIN f : i <= j

\* a caller that is not inside a request; read is the row its request read
\* and totalPaid the sum its findMany gave
Idle == [pc |-> "idle", op |-> "none", id |-> 0, body |-> NoBody, read |-> <<>>,
         totalPaid |-> 0]

\* no overview has been asked for yet
NoOverview == [asked |-> FALSE]

\* --------------------------------------------------------------------- Init
Init ==
  /\ payments = <<>>
  /\ partPayments = <<>>
  /\ projects = [p \in ProjectIds |-> [clientId |-> Client, createdById |-> Admin,
                                        spent |-> 0, budget |-> Budget]]
  /\ notifications = <<>>
  /\ materials = <<>>
  /\ materialPayments = <<>>
  /\ vendors = [v \in VendorIds |-> [totalOrders |-> 0, totalAmount |-> 0,
                                     pendingAmount |-> 0, totalPaid |-> 0]]
  /\ rawOrders = <<>>
  /\ rawPayments = <<>>
  /\ workerLogs = <<>>
  /\ leads = <<>>
  /\ inflight = [c \in CallerIds |-> Idle]
  /\ overview = NoOverview
  /\ resp = Response("none", 0, 0)

\* what the handler gives up when the database call failAt throws: nothing,
\* the calls before it were committed one by one
AfterFailure_RolledBack(failAt, written, before) ==
  IF failAt = "none" THEN written ELSE before

AfterFailure(failAt, written, before) == written

\* the calls of the handlers of this router that may throw
NotifyFailPoints == {"none", "notification.create"}

\* the notification table after the handler's notification.create
Delivered(failAt, userId, type, title) ==
  IF failAt = "notification.create" THEN notifications ELSE Notify(userId, type, title)

\* the handler's status: the catch block answers 500
StatusAfter(failAt, ok) == IF failAt = "none" THEN ok ELSE 500

\* ------------------------------------------------- POST /api/payments
NewPayment(projectId, amount) ==
  [projectId |-> projectId, amount |-> amount, paidAmount |-> 0,
   status |-> "PENDING", adminAcknowledged |-> FALSE, clientAcknowledged |-> FALSE,
   paidDate |-> FALSE, isPartPayment |-> FALSE]

CreatePaymentStep(projectId, amount, failAt) ==
  /\ DOMAIN payments # PayIds
  /\ failAt = "notification.create" => projects[projectId].clientId # ""
  /\ failAt = "none" => NotifyRoom(projects[projectId].clientId)
  /\ LET id == NextId(payments, PayIds) IN
       /\ payments' = AfterFailure(failAt, Put(payments, id, NewPayment(projectId, amount)), payments)
       /\ partPayments' = AfterFailure(failAt, Put(partPayments, id, EmptyBag), partPayments)
       /\ notifications' = Delivered(failAt, projects[projectId].clientId,
                                     "PAYMENT_REMINDER", "New Payment Milestone")
       /\ resp' = Response("createPayment", id, StatusAfter(failAt, 201))
  /\ UNCHANGED <<projects, matVars, otherVars>>

CreatePayment(projectId, amount) == CreatePaymentStep(projectId, amount, "none")

\* --------------------------- POST /api/payments/:id/request-acknowledgment
RequestAcknowledgmentStep(id, failAt) ==
  IF id \notin DOMAIN payments
  THEN /\ failAt = "none"
       /\ resp' = Response("requestAcknowledgment", id, 500)
       /\ UNCHANGED <<payVars, matVars, otherVars>>
  ELSE LET project == projects[payments[id].projectId] IN
       /\ failAt = "notification.create" => project.clientId # ""
       /\ failAt = "none" => NotifyRoom(project.clientId)
       /\ payments' = AfterFailure(failAt,
              [payments EXCEPT ![id].status = "AWAITING_CLIENT",
                               ![id].adminAcknowledged = TRUE], payments)
       /\ notifications' = Delivered(failAt, project.clientId,
                                     "PAYMENT_REMINDER", "Payment Acknowledgment Required")
       /\ resp' = Response("requestAcknowledgment", id, StatusAfter(failAt, 200))
       /\ UNCHANGED <<partPayments, projects, matVars, otherVars>>

RequestAcknowledgment(id) == RequestAcknowledgmentStep(id, "none")

\* ------------------------------- POST /api/payments/:id/client-acknowledge
ClientReject_ResetsStatus(id) ==
  /\ resp' = Response("clientReject", id, 200)
  /\ IF id \in DOMAIN payments
     THEN LET project == projects[payments[id].projectId] IN
          /\ NotifyRoom(project.createdById)
          /\ payments' = [payments EXCEPT ![id].status = "PENDING",
                                          ![id].adminAcknowledged = FALSE]
          /\ notifications' = Notify(project.createdById, "ALERT", "Payment Acknowledgment Rejected")
     ELSE UNCHANGED <<payments, notifications>>
  /\ UNCHANGED <<partPayments, projects, matVars, otherVars>>

\* the route is behind protect only: the handler serves any authenticated
\* user and never reads req.user
ClientRejectBy(user, id) ==
  /\ user \in Users
  /\ resp' = ResponseBy(user, "clientReject", id, 200)
  /\ IF id \in DOMAIN payments
     THEN LET project == projects[payments[id].projectId] IN
          /\ NotifyRoom(project.createdById)
          /\ notifications' = Notify(project.createdById, "ALERT", "Payment Acknowledgment Rejected")
     ELSE UNCHANGED notifications
  /\ UNCHANGED <<payments, partPayments, projects, matVars, otherVars>>

ClientReject(id) == ClientRejectBy(Client, id)

ClientAcceptBy(user, id, failAt) ==
  IF id \notin DOMAIN payments
  THEN /\ failAt = "none"
       /\ user \in Users
       /\ resp' = ResponseBy(user, "clientAccept", id, 500)
       /\ UNCHANGED <<payVars, matVars, otherVars>>
  ELSE LET project == projects[payments[id].projectId] IN
       /\ user \in Users
       /\ failAt = "notification.create" => project.createdById # ""
       /\ failAt = "none" => NotifyRoom(project.createdById)
       /\ payments' = AfterFailure(failAt,
              [payments EXCEPT ![id].clientAcknowledged = TRUE,
                               ![id].status = "AWAITING_ADMIN"], payments)
       /\ notifications' = Delivered(failAt, project.createdById,
                                     "SUCCESS", "Client Acknowledged Payment")
       /\ resp' = ResponseBy(user, "clientAccept", id, StatusAfter(failAt, 200))
       /\ UNCHANGED <<partPayments, projects, matVars, otherVars>>

ClientAcceptStep(id, failAt) == ClientAcceptBy(Client, id, failAt)

ClientAccept(id) == ClientAcceptStep(id, "none")

ClientAcknowledgeBy(user, id, accepted) ==
  IF ~accepted THEN ClientRejectBy(user, id) ELSE ClientAcceptBy(user, id, "none")

ClientAcknowledge(id, accepted) ==
  IF ~accepted THEN ClientReject(id) ELSE ClientAccept(id)

\* --------------------------------- POST /api/payments/:id/confirm-payment
BothAcknowledged_Either(existingPayment) ==
  existingPayment.adminAcknowledged \/ existingPayment.clientAcknowledged

BothAcknowledged(existingPayment) ==
  existingPayment.adminAcknowledged /\ existingPayment.clientAcknowledged

\* const paymentAmount = amount || existingPayment.amount
PaymentAmount(body, existingPayment) ==
  IF body.hasAmount /\ body.amount # 0 THEN body.amount ELSE existingPayment.amount

IsFullyPaid_Beyond(newPaidAmount, existingPayment) == newPaidAmount > existingPayment.amount

\* const isFullyPaid = newPaidAmount >= existingPayment.amount
IsFullyPaid(newPaidAmount, existingPayment) == newPaidAmount >= existingPayment.amount

TotalPaid_Amounts(pays, projectId) ==
  SumOver({i \in DOMAIN pays : pays[i].projectId = projectId},
          [i \in DOMAIN pays |-> pays[i].amount], 0)

RecordsPartPayment_OnlyWhenPartial(isPartPayment, isFullyPaid) == ~isFullyPaid

\* if (isPartPayment || !isFullyPaid)
RecordsPartPayment(isPartPayment, isFullyPaid) == isPartPayment \/ ~isFullyPaid

\* the project's spent: reduce over findMany({ projectId })
TotalPaid(pays, projectId) ==
  SumOver({i \in DOMAIN pays : pays[i].projectId = projectId},
          [i \in DOMAIN pays |-> pays[i].paidAmount], 0)

\* the handler after its two early returns; existingPayment is the row that
\* findUnique returned
ConfirmPaymentWrites(id, body, existingPayment, failAt) ==
  LET paymentAmount == PaymentAmount(body, existingPayment)
      newPaidAmount == existingPayment.paidAmount + paymentAmount
      isFullyPaid == IsFullyPaid(newPaidAmount, existingPayment)
      project == projects[existingPayment.projectId]
      updated == [payments EXCEPT ![id].paidAmount = newPaidAmount,
                                  ![id].paidDate = isFullyPaid,
                                  ![id].status = IF isFullyPaid THEN "PAID" ELSE "PARTIAL",
                                  ![id].isPartPayment = ~isFullyPaid]
  IN
  /\ newPaidAmount \in -MaxDebt..MaxPaid
  /\ failAt = "notification.create" => project.clientId # ""
  /\ failAt = "none" => NotifyRoom(project.clientId)
  /\ IF RecordsPartPayment(body.isPartPayment, isFullyPaid)
     THEN /\ BagCardinality(partPayments[id]) < MaxPartPayments
          /\ partPayments' = AfterFailure(failAt,
                 [partPayments EXCEPT ![id] = AddRow(@, paymentAmount)], partPayments)
     ELSE UNCHANGED partPayments
  /\ payments' = AfterFailure(failAt, updated, payments)
  /\ projects' = AfterFailure(failAt,
         [projects EXCEPT ![existingPayment.projectId].spent =
                             TotalPaid(updated, existingPayment.projectId)], projects)
  /\ notifications' = Delivered(failAt, project.clientId, "SUCCESS",
                                IF isFullyPaid THEN "Payment Confirmed" ELSE "Part Payment Confirmed")
  /\ resp' = ResponseTo("confirmPayment", id, StatusAfter(failAt, 200), body)

ConfirmPaymentStep(id, body, failAt) ==
  IF id \notin DOMAIN payments
  THEN /\ failAt = "none"
       /\ resp' = ResponseTo("confirmPayment", id, 404, body)
       /\ UNCHANGED <<payVars, matVars, otherVars>>
  ELSE IF ~BothAcknowledged(payments[id])
  THEN /\ failAt = "none"
       /\ resp' = ResponseTo("confirmPayment", id, 400, body)
       /\ UNCHANGED <<payVars, matVars, otherVars>>
  ELSE /\ ConfirmPaymentWrites(id, body, payments[id], failAt)
       /\ UNCHANGED <<matVars, otherVars>>

ConfirmPayment(id, body) == ConfirmPaymentStep(id, body, "none")

\* --------------------------- POST /api/payments/project/:projectId/setup
\* the schedules a caller may send: one or two milestones, each a
\* percentage of the budget
Schedules == {<<x>> : x \in Percentages} \cup {<<x, y>> : x \in Percentages, y \in Percentages}

\* amount: (project.budget * m.percentage) / 100
TemplatedAmount(budget, percentage) == (budget * percentage) \div 100

SetupPayments(projectId, milestones) ==
  IF projectId \notin DOMAIN projects
  THEN /\ resp' = Response("setupPayments", 0, 404)
       /\ UNCHANGED <<payVars, matVars, otherVars>>
  ELSE LET project == projects[projectId]
           free == PayIds \ DOMAIN payments
           rank == [i \in free |-> Cardinality({j \in free : j <= i})]
           created == {i \in free : rank[i] <= Len(milestones)}
       IN
       /\ Len(milestones) <= Cardinality(free)
       /\ NotifyRoom(project.clientId)
       /\ payments' = [i \in DOMAIN payments \cup created |->
                         IF i \in created
                         THEN NewPayment(projectId,
                                         TemplatedAmount(project.budget, milestones[rank[i]]))
                         ELSE payments[i]]
       /\ partPayments' = [i \in DOMAIN payments \cup created |->
                             IF i \in created THEN EmptyBag ELSE partPayments[i]]
       /\ notifications' = Notify(project.clientId, "INFO", "Payment Schedule Created")
       /\ resp' = Response("setupPayments", 0, 201)
       /\ UNCHANGED <<projects, matVars, otherVars>>

\* ------------------------------------------------ PUT /api/payments/:id
UpdatePayment_Restarts(id, amount) ==
  IF id \notin DOMAIN payments
  THEN /\ resp' = Response("updatePayment", id, 404)
       /\ UNCHANGED <<payVars, matVars, otherVars>>
  ELSE /\ payments' = [payments EXCEPT ![id].amount = amount,
                                       ![id].status = "PENDING",
                                       ![id].adminAcknowledged = FALSE,
                                       ![id].clientAcknowledged = FALSE]
       /\ resp' = Response("updatePayment", id, 200)
       /\ UNCHANGED <<partPayments, projects, notifications, matVars, otherVars>>

\* data: { stageName, amount, dueDate, notes, reminderDays, reminderEnabled }
UpdatePayment(id, amount) ==
  IF id \notin DOMAIN payments
  THEN /\ resp' = Response("updatePayment", id, 404)
       /\ UNCHANGED <<payVars, matVars, otherVars>>
  ELSE /\ payments' = [payments EXCEPT ![id].amount = amount]
       /\ resp' = Response("updatePayment", id, 200)
       /\ UNCHANGED <<partPayments, projects, notifications, matVars, otherVars>>

\* ---------------------------------------- DELETE /api/notifications/:id
DeleteNotification(i) ==
  /\ i \in 1..Len(notifications)
  /\ notifications' = SubSeq(notifications, 1, i - 1) \o SubSeq(notifications, i + 1, Len(notifications))
  /\ resp' = Response("deleteNotification", 0, 200)
  /\ UNCHANGED <<payments, partPayments, projects, matVars, otherVars>>

\* ================================================== materials router
Max(a, b) == IF a >= b THEN a ELSE b

VendorLinked(vendorId) == vendorId # NoVendor

\* ------------------------------------------------- POST /api/materials
NewMaterial(vendorId, qty, price) ==
  [vendorId |-> vendorId, quantity |-> qty, unitPrice |-> price,
   totalCost |-> qty * price, paidAmount |-> 0, remainingAmount |-> qty * price,
   paymentStatus |-> "PENDING"]

\* vendor stats after an order of totalCost
VendorAfterOrder(vendor, totalCost) ==
  [vendor EXCEPT !.totalOrders = @ + 1,
                 !.totalAmount = @ + totalCost,
                 !.pendingAmount = @ + totalCost]

CreateMaterial(vendorId, quantity, unitPrice) ==
  /\ DOMAIN materials # MaterialIds
  /\ VendorLinked(vendorId) => vendors[vendorId].totalOrders < MaxOrders
  /\ LET id == NextId(materials, MaterialIds)
         material == NewMaterial(vendorId, quantity, unitPrice)
     IN
     /\ materials' = Put(materials, id, material)
     /\ materialPayments' = Put(materialPayments, id, EmptyBag)
     /\ vendors' = IF VendorLinked(vendorId)
                   THEN [vendors EXCEPT ![vendorId] = VendorAfterOrder(@, material.totalCost)]
                   ELSE vendors
     /\ resp' = Response("createMaterial", id, 201)
  /\ UNCHANGED <<payVars, otherVars, rawOrders, rawPayments>>

\* --------------------------------------- POST /api/materials/:id/payment
FailPoints == {"none", "materialPayment.create", "material.update", "vendor.update"}

RemainingAfter_Unclamped(newRemainingAmount) == newRemainingAmount

\* Math.max(0, newRemainingAmount)
RemainingAfter(newRemainingAmount) == Max(0, newRemainingAmount)

MaterialAfterPayment(material, paymentAmount) ==
  LET newPaidAmount == material.paidAmount + paymentAmount
      newRemainingAmount == material.totalCost - newPaidAmount
      isFullyPaid == newRemainingAmount <= 0
  IN [material EXCEPT !.paidAmount = newPaidAmount,
                      !.remainingAmount = RemainingAfter(newRemainingAmount),
                      !.paymentStatus = IF isFullyPaid THEN "PAID" ELSE "PARTIAL"]

VendorAfterPayment_PaidOnly(vendor, paymentAmount) ==
  [vendor EXCEPT !.totalPaid = @ + paymentAmount]

VendorAfterPayment_ClampedPending(vendor, paymentAmount) ==
  [vendor EXCEPT !.totalPaid = @ + paymentAmount,
                 !.pendingAmount = Max(0, @ - paymentAmount)]

\* totalPaid: { increment: paymentAmount }, pendingAmount: { decrement: paymentAmount }
VendorAfterPayment(vendor, paymentAmount) ==
  [vendor EXCEPT !.totalPaid = @ + paymentAmount,
                 !.pendingAmount = @ - paymentAmount]

MaterialPaymentRow_Capped(material, paymentAmount) ==
  [amount |-> IF paymentAmount > material.remainingAmount
              THEN material.remainingAmount ELSE paymentAmount,
   vendorId |-> material.vendorId]

\* data: { materialId, vendorId: material.vendorId, amount: paymentAmount, ... }
MaterialPaymentRow(material, paymentAmount) ==
  [amount |-> paymentAmount, vendorId |-> material.vendorId]

\* the handler after findUnique returned the row material; failAt names the
\* database call that throws, if any does
MaterialPaymentWrites(id, amount, material, failAt) ==
  LET updatedMaterial == MaterialAfterPayment(material, amount) IN
  /\ updatedMaterial.paidAmount \in -MaxDebt..MaxPaid
  /\ BagCardinality(materialPayments[id]) < MaxRecords
  /\ failAt = "vendor.update" => VendorLinked(material.vendorId)
  /\ materialPayments' =
       IF failAt = "materialPayment.create" THEN materialPayments
       ELSE [materialPayments EXCEPT ![id] = AddRow(@, MaterialPaymentRow(material, amount))]
  /\ materials' =
       IF failAt \in {"materialPayment.create", "material.update"} THEN materials
       ELSE [materials EXCEPT ![id].paidAmount = updatedMaterial.paidAmount,
                              ![id].remainingAmount = updatedMaterial.remainingAmount,
                              ![id].paymentStatus = updatedMaterial.paymentStatus]
  /\ vendors' =
       IF failAt = "none" /\ VendorLinked(material.vendorId)
       THEN [vendors EXCEPT ![material.vendorId] = VendorAfterPayment(@, amount)]
       ELSE vendors
  /\ resp' = ResponseTo("materialPayment", id,
                        IF failAt = "none" THEN 200 ELSE 500, Body(TRUE, amount, FALSE))

MaterialPayment(id, amount, failAt) ==
  IF id \notin DOMAIN materials
  THEN /\ failAt = "none"
       /\ resp' = ResponseTo("materialPayment", id, 404, Body(TRUE, amount, FALSE))
       /\ UNCHANGED <<payVars, matVars, otherVars>>
  ELSE /\ MaterialPaymentWrites(id, amount, materials[id], failAt)
       /\ UNCHANGED <<payVars, otherVars, rawOrders, rawPayments>>

PostMaterialPayment(id, amount) == MaterialPayment(id, amount, "none")

PostMaterialPaymentFailing(id, amount) ==
  \E failAt \in FailPoints \ {"none"} : MaterialPayment(id, amount, failAt)

\* ------------------------------------------------ PUT /api/materials/:id
\* the fields of the body the ledger depends on; the others are spread into
\* the update unchanged (...rest)
MaterialBody(hasQuantity, quantity, hasUnitPrice, unitPrice, hasPaidAmount, paidAmount) ==
  [hasQuantity |-> hasQuantity, quantity |-> quantity,
   hasUnitPrice |-> hasUnitPrice, unitPrice |-> unitPrice,
   hasPaidAmount |-> hasPaidAmount, paidAmount |-> paidAmount]

MaterialBodies ==
  {MaterialBody(hq, IF hq THEN q ELSE 0, hp, IF hp THEN pr ELSE 0, FALSE, 0) :
      hq \in BOOLEAN, q \in 0..MaxQuantity, hp \in BOOLEAN, pr \in 1..MaxPrice}
  \cup {MaterialBody(FALSE, 0, FALSE, 0, TRUE, 0)}

UpdateData(current, body) ==
  LET rest == IF body.hasPaidAmount THEN [current EXCEPT !.paidAmount = body.paidAmount]
              ELSE current
  IN IF body.hasQuantity \/ body.hasUnitPrice
     THEN LET newQty == IF body.hasQuantity THEN body.quantity ELSE current.quantity
              newPrice == IF body.hasUnitPrice THEN body.unitPrice ELSE current.unitPrice
              newTotal == newQty * newPrice
          IN [rest EXCEPT !.quantity = newQty,
                          !.unitPrice = newPrice,
                          !.totalCost = newTotal,
                          !.remainingAmount = newTotal - current.paidAmount]
     ELSE rest

UpdateMaterial(id, body) ==
  IF id \notin DOMAIN materials
  THEN /\ resp' = Response("updateMaterial", id, IF body.hasQuantity \/ body.hasUnitPrice THEN 500 ELSE 404)
       /\ UNCHANGED <<payVars, matVars, otherVars>>
  ELSE /\ materials' = [materials EXCEPT ![id] = UpdateData(@, body)]
       /\ resp' = Response("updateMaterial", id, 200)
       /\ UNCHANGED <<payVars, otherVars, materialPayments, vendors, rawOrders, rawPayments>>

\* --------------------------------------------- DELETE /api/materials/:id
Remove(f, k) == [i \in DOMAIN f \ {k} |-> f[i]]

\* cascade tells whether the schema deletes the child payment rows with the
\* order or refuses to delete an order that has some
DeleteMaterial(id, cascade) ==
  IF id \notin DOMAIN materials
  THEN /\ resp' = Response("deleteMaterial", id, 404)
       /\ UNCHANGED <<payVars, matVars, otherVars>>
  ELSE IF materialPayments[id] # EmptyBag /\ ~cascade
  THEN /\ resp' = Response("deleteMaterial", id, 500)
       /\ UNCHANGED <<payVars, matVars, otherVars>>
  ELSE /\ materials' = Remove(materials, id)
       /\ materialPayments' = Remove(materialPayments, id)
       /\ resp' = Response("deleteMaterial", id, 200)
       /\ UNCHANGED <<payVars, otherVars, vendors, rawOrders, rawPayments>>

\* ============================================== raw-materials router
\* ------------------------------------- POST /api/raw-materials/orders
NewRawOrder(qty, price) ==
  [totalAmount |-> qty * price, paidAmount |-> 0, paymentStatus |-> "PENDING"]

CreateRawOrder(quantity, unitPrice) ==
  /\ DOMAIN rawOrders # RawOrderIds
  /\ LET id == NextId(rawOrders, RawOrderIds) IN
       /\ rawOrders' = Put(rawOrders, id, NewRawOrder(quantity, unitPrice))
       /\ rawPayments' = Put(rawPayments, id, EmptyBag)
       /\ resp' = Response("createRawOrder", id, 201)
  /\ UNCHANGED <<payVars, otherVars, materials, materialPayments, vendors>>

\* ------------------------- POST /api/raw-materials/orders/:id/payment
RawOrderAfterPayment(order, paymentAmount) ==
  LET newPaidAmount == order.paidAmount + paymentAmount
      isFullyPaid == newPaidAmount >= order.totalAmount
  IN [order EXCEPT !.paidAmount = newPaidAmount,
                   !.paymentStatus = IF isFullyPaid THEN "PAID" ELSE "PARTIAL"]

PostRawPayment(id, amount) ==
  IF id \notin DOMAIN rawOrders
  THEN /\ resp' = ResponseTo("rawPayment", id, 404, Body(TRUE, amount, FALSE))
       /\ UNCHANGED <<payVars, matVars, otherVars>>
  ELSE LET updatedOrder == RawOrderAfterPayment(rawOrders[id], amount) IN
       /\ updatedOrder.paidAmount \in -MaxDebt..MaxPaid
       /\ BagCardinality(rawPayments[id]) < MaxRecords
       /\ rawPayments' = [rawPayments EXCEPT ![id] = AddRow(@, amount)]
       /\ rawOrders' = [rawOrders EXCEPT ![id] = updatedOrder]
       /\ resp' = ResponseTo("rawPayment", id, 200, Body(TRUE, amount, FALSE))
       /\ UNCHANGED <<payVars, otherVars, materials, materialPayments, vendors>>

\* ================================================== workforce router
\* Multipliers and shift fractions are counted in quarters, the overtime
\* rate in halves and wages in 1/WageScale of a currency unit, so that
\* every wage is a whole number.
baseHours == 8
overtimeRate == 3
WageScale == baseHours * 4 * 4
Money(x) == x * WageScale

Shifts == {"DAY", "NIGHT", "FULL_DAY", "HALF_DAY"}
Counts == {1, 5}
Rates == {500, 800}
Hours == {4, 8, 10}
Fractions == {2, 4}

Multiplier_NightAsFullDay(shift) ==
  IF shift = "HALF_DAY" THEN 2 ELSE IF shift \in {"NIGHT", "FULL_DAY"} THEN 6 ELSE 4

\* let multiplier = 1; NIGHT 1.25, FULL_DAY 1.5, HALF_DAY 0.5
Multiplier(shift) ==
  IF shift = "HALF_DAY" THEN 2
  ELSE IF shift = "FULL_DAY" THEN 6
  ELSE IF shift = "NIGHT" THEN 5
  ELSE 4

calculateWage(count, ratePerWorker, hoursWorked, shift, shiftFraction) ==
  LET multiplier == Multiplier(shift) IN
  IF hoursWorked <= baseHours
  THEN (count * ratePerWorker * hoursWorked * multiplier * shiftFraction * WageScale)
         \div (baseHours * 4 * 4)
  ELSE LET regularPay == (count * ratePerWorker * multiplier * shiftFraction * WageScale)
                           \div (4 * 4)
           overtimeHours == hoursWorked - baseHours
           overtimePay == (count * ratePerWorker * overtimeHours * overtimeRate
                             * multiplier * WageScale) \div (baseHours * 2 * 4)
       IN regularPay + overtimePay

\* a request body of the router; 0 and "" stand for a field that is left out
\* (or, in POST, is falsy); the handlers never read totalWage
WorkerLogBody(count, shift, shiftFraction, hoursWorked, ratePerWorker, status, totalWage) ==
  [count |-> count, shift |-> shift, shiftFraction |-> shiftFraction,
   hoursWorked |-> hoursWorked, ratePerWorker |-> ratePerWorker,
   status |-> status, totalWage |-> totalWage]

EmptyWorkerLogBody == WorkerLogBody(0, "", 0, 0, 0, "", 0)

\* bodies that set one field, or none, or a totalWage of their own
WorkerLogBodies ==
  {[EmptyWorkerLogBody EXCEPT !.count = x] : x \in Counts} \cup
  {[EmptyWorkerLogBody EXCEPT !.shift = x] : x \in Shifts} \cup
  {[EmptyWorkerLogBody EXCEPT !.shiftFraction = x] : x \in Fractions} \cup
  {[EmptyWorkerLogBody EXCEPT !.hoursWorked = x] : x \in Hours} \cup
  {[EmptyWorkerLogBody EXCEPT !.ratePerWorker = x] : x \in Rates} \cup
  {[EmptyWorkerLogBody EXCEPT !.status = "PAID"],
   [EmptyWorkerLogBody EXCEPT !.totalWage = Money(1)],
   EmptyWorkerLogBody}

\* a || b on numbers
OrElse(a, b) == IF a # 0 THEN a ELSE b

StoredWage_FromBody(body, computed) ==
  IF body.totalWage # 0 THEN body.totalWage ELSE computed

\* data: { ..., totalWage, ... }
StoredWage(body, computed) == computed

\* Instants are counted in ticks of half a day from an arbitrary origin; the
\* dates of the model lie within MaxWeeks weeks and a day.
DayTicks == 2
Horizon == (7 * MaxWeeks + 1) * DayTicks
Dates == 0..Horizon

\* the instant at which a request that sends no date is served
Today == Horizon

\* ------------------------------------------------- POST /api/workforce
\* logDate is date ? new Date(date) : new Date()
NewWorkerLog(projectId, body, logDate) ==
  LET hours == OrElse(body.hoursWorked, 8)
      fraction == OrElse(body.shiftFraction, 4)
      rate == OrElse(body.ratePerWorker, 500)
      count == OrElse(body.count, 1)
      shift == IF body.shift # "" THEN body.shift ELSE "DAY"
      totalWage == calculateWage(count, rate, hours, shift, fraction)
  IN [projectId |-> projectId, count |-> count, shift |-> shift,
      shiftFraction |-> fraction, hoursWorked |-> hours, ratePerWorker |-> rate,
      totalWage |-> StoredWage(body, totalWage), status |-> "PENDING",
      date |-> logDate]

CreateWorkerLogAt(projectId, body, logDate) ==
  /\ DOMAIN workerLogs # WorkerLogIds
  /\ LET id == NextId(workerLogs, WorkerLogIds) IN
       /\ workerLogs' = Put(workerLogs, id, NewWorkerLog(projectId, body, logDate))
       /\ resp' = Response("createWorkerLog", id, 201)
  /\ UNCHANGED <<payVars, matVars, leads, inflight, overview>>

CreateWorkerLog(projectId, body) == CreateWorkerLogAt(projectId, body, Today)

\* ------------------------------------------------ PUT /api/workforce/:id
UpdatedWorkerLog(currentLog, body) ==
  LET newCount == IF body.count # 0 THEN body.count ELSE currentLog.count
      newRate == IF body.ratePerWorker # 0 THEN body.ratePerWorker ELSE currentLog.ratePerWorker
      newHours == IF body.hoursWorked # 0 THEN body.hoursWorked ELSE currentLog.hoursWorked
      newShift == IF body.shift # "" THEN body.shift ELSE currentLog.shift
      newFraction == IF body.shiftFraction # 0 THEN body.shiftFraction ELSE currentLog.shiftFraction
      totalWage == calculateWage(newCount, newRate, newHours, newShift, newFraction)
  IN [currentLog EXCEPT !.count = newCount, !.shift = newShift,
                        !.shiftFraction = newFraction, !.hoursWorked = newHours,
                        !.ratePerWorker = newRate,
                        !.totalWage = StoredWage(body, totalWage),
                        !.status = IF body.status # "" THEN body.status ELSE @]

UpdateWorkerLog(id, body) ==
  IF id \notin DOMAIN workerLogs
  THEN /\ resp' = Response("updateWorkerLog", id, 404)
       /\ UNCHANGED <<payVars, matVars, otherVars>>
  ELSE /\ workerLogs' = [workerLogs EXCEPT ![id] = UpdatedWorkerLog(@, body)]
       /\ resp' = Response("updateWorkerLog", id, 200)
       /\ UNCHANGED <<payVars, matVars, leads, inflight, overview>>

\* -------------------------------------------- PUT /api/workforce/:id/pay
PayWorkerLog(id) ==
  IF id \notin DOMAIN workerLogs
  THEN /\ resp' = Response("payWorkerLog", id, 500)
       /\ UNCHANGED <<payVars, matVars, otherVars>>
  ELSE /\ workerLogs' = [workerLogs EXCEPT ![id].status = "PAID"]
       /\ resp' = Response("payWorkerLog", id, 200)
       /\ UNCHANGED <<payVars, matVars, leads, inflight, overview>>

\* ------------ POST /api/workforce/weekly/:weekNumber/:weekYear/pay-all
\* all logs are of the week asked for; projectId "" is a body without one
PayAllWorkerLogs(projectId) ==
  /\ workerLogs' =
       [id \in DOMAIN workerLogs |->
          IF /\ workerLogs[id].status = "PENDING"
             /\ (projectId = "" \/ workerLogs[id].projectId = projectId)
          THEN [workerLogs[id] EXCEPT !.status = "PAID"]
          ELSE workerLogs[id]]
  /\ resp' = Response("payAllWorkerLogs", 0, 200)
  /\ UNCHANGED <<payVars, matVars, leads, inflight, overview>>

\* --------------------------------------------- DELETE /api/workforce/:id
DeleteWorkerLog(id) ==
  IF id \notin DOMAIN workerLogs
  THEN /\ resp' = Response("deleteWorkerLog", id, 500)
       /\ UNCHANGED <<payVars, matVars, otherVars>>
  ELSE /\ workerLogs' = Remove(workerLogs, id)
       /\ resp' = Response("deleteWorkerLog", id, 200)
       /\ UNCHANGED <<payVars, matVars, leads, inflight, overview>>

\* ====================================================== leads router
Stages == {"NEW", "CONTACTED", "QUALIFIED", "PROPOSAL_SENT", "NEGOTIATION", "WON", "LOST"}

\* an entry of stageHistory; the column holds the JSON text of the list,
\* which JSON.parse gives back as it was written
HistoryEntry(stage, previousStage, note) ==
  [stage |-> stage, previousStage |-> previousStage, note |-> note]

\* the id the database gives the n-th project created from a lead
LeadProject(n) == "lp" \o ToString(n)

\* the projects created from leads so far
LeadProjects == DOMAIN projects \ ProjectIds

\* the row of prisma.project.create; the client and the creator are not set
\* and the budget is budget || lead.budget || 0 of a request and a lead
\* without budget
NewProjectOfLead == [clientId |-> "", createdById |-> "", spent |-> 0, budget |-> 0]

\* ---------------------------------------------------- POST /api/leads
NewLead ==
  [stage |-> "NEW", isConverted |-> FALSE, convertedToProjectId |-> "",
   stageHistory |-> <<HistoryEntry("NEW", "", "Lead created")>>]

CreateLead ==
  /\ DOMAIN leads # LeadIds
  /\ LET id == NextId(leads, LeadIds) IN
       /\ leads' = Put(leads, id, NewLead)
       /\ resp' = Response("createLead", id, 201)
  /\ UNCHANGED <<payVars, matVars, workerLogs, inflight, overview>>

\* ------------------------------------------------- PUT /api/leads/:id
\* data: req.body, here a body that sets the stage
UpdateLead(id, stage) ==
  IF id \notin DOMAIN leads
  THEN /\ resp' = Response("updateLead", id, 404)
       /\ UNCHANGED <<payVars, matVars, otherVars>>
  ELSE /\ leads' = [leads EXCEPT ![id].stage = stage]
       /\ resp' = Response("updateLead", id, 200)
       /\ UNCHANGED <<payVars, matVars, workerLogs, inflight, overview>>

\* ------------------------------------------- PUT /api/leads/:id/stage
MoveLeadStage(id, stage) ==
  IF id \notin DOMAIN leads
  THEN /\ resp' = Response("moveLeadStage", id, 404)
       /\ UNCHANGED <<payVars, matVars, otherVars>>
  ELSE LET currentLead == leads[id]
           history == Append(currentLead.stageHistory,
                             HistoryEntry(stage, currentLead.stage, "Moved"))
       IN
       /\ Len(currentLead.stageHistory) < MaxHistory
       /\ leads' = [leads EXCEPT ![id].stage = stage, ![id].stageHistory = history]
       /\ resp' = Response("moveLeadStage", id, 200)
       /\ UNCHANGED <<payVars, matVars, workerLogs, inflight, overview>>

\* ---------------------------------------- POST /api/leads/:id/convert
ConvertLead(id) ==
  IF id \notin DOMAIN leads
  THEN /\ resp' = Response("convertLead", id, 404)
       /\ UNCHANGED <<payVars, matVars, otherVars>>
  ELSE /\ Cardinality(LeadProjects) < MaxConversions
       /\ LET project == LeadProject(Cardinality(LeadProjects) + 1)
          IN /\ projects' = Put(projects, project, NewProjectOfLead)
             /\ leads' = [leads EXCEPT ![id].isConverted = TRUE,
                                       ![id].convertedToProjectId = project,
                                       ![id].stage = "WON"]
       /\ resp' = Response("convertLead", id, 200)
       /\ UNCHANGED <<payments, partPayments, notifications, matVars,
                      workerLogs, inflight, overview>>

\* -------------------------------------------- PUT /api/leads/:id/lose
LoseLead(id) ==
  IF id \notin DOMAIN leads
  THEN /\ resp' = Response("loseLead", id, 500)
       /\ UNCHANGED <<payVars, matVars, otherVars>>
  ELSE /\ leads' = [leads EXCEPT ![id].stage = "LOST"]
       /\ resp' = Response("loseLead", id, 200)
       /\ UNCHANGED <<payVars, matVars, workerLogs, inflight, overview>>

\* ---------------------------------------------- DELETE /api/leads/:id
DeleteLead(id) ==
  IF id \notin DOMAIN leads
  THEN /\ resp' = Response("deleteLead", id, 404)
       /\ UNCHANGED <<payVars, matVars, otherVars>>
  ELSE /\ leads' = Remove(leads, id)
       /\ resp' = Response("deleteLead", id, 200)
       /\ UNCHANGED <<payVars, matVars, workerLogs, inflight, overview>>

\* ================================================== analytics router
\* where: { ...projectFilter }; projectId "" is a query without one, and a
\* row without a project is in no project's scope
InScope(projectId, rowProject) == projectId = "" \/ rowProject = projectId

\* n / d rounded to the nearest whole number, as toFixed rounds
RoundDiv(n, d) ==
  IF n >= 0 THEN (2 * n + d) \div (2 * d) ELSE -((2 * (-n) + d) \div (2 * d))

\* profit / totalIncome in hundredths of a percent; totalIncome is a whole
\* amount, so 16 divides it, and 10000 / 16 keeps the product small
Percent(profit, totalIncome) == RoundDiv(profit * (10000 \div 16), totalIncome \div 16)

Margin_LossIsTotal(profit, totalIncome) ==
  IF totalIncome > 0
  THEN [text |-> TRUE, hundredths |-> Percent(profit, totalIncome)]
  ELSE IF profit < 0 THEN [text |-> TRUE, hundredths |-> -10000]
  ELSE [text |-> FALSE, hundredths |-> 0]

\* totalIncome > 0 ? ((profit / totalIncome) * 100).toFixed(2) : 0
\* the text of a percentage with two decimals, or the number 0
Margin(profit, totalIncome) ==
  IF totalIncome > 0
  THEN [text |-> TRUE, hundredths |-> Percent(profit, totalIncome)]
  ELSE [text |-> FALSE, hundredths |-> 0]

\* the data of the response; amounts are in 1/WageScale of a currency unit
OverviewData(projectId) ==
  LET pays == {i \in DOMAIN payments : InScope(projectId, payments[i].projectId)}
      mats == {i \in DOMAIN materials : InScope(projectId, "")}
      logs == {i \in DOMAIN workerLogs : InScope(projectId, workerLogs[i].projectId)}
      totalIncome == SumOver(pays, [i \in pays |-> Money(payments[i].paidAmount)], 0)
      pendingIncome ==
        SumOver(pays, [i \in pays |-> Money(payments[i].amount - payments[i].paidAmount)], 0)
      materialExpense == SumOver(mats, [i \in mats |-> Money(materials[i].paidAmount)], 0)
      paidLogs == {i \in logs : workerLogs[i].status = "PAID"}
      laborExpense == SumOver(paidLogs, [i \in paidLogs |-> workerLogs[i].totalWage], 0)
      totalExpense == materialExpense + laborExpense
      pendingMaterial == SumOver(mats, [i \in mats |-> Money(materials[i].remainingAmount)], 0)
      unpaidLogs == {i \in logs : workerLogs[i].status # "PAID"}
      pendingLabor == SumOver(unpaidLogs, [i \in unpaidLogs |-> workerLogs[i].totalWage], 0)
      pendingExpense == pendingMaterial + pendingLabor
      profit == totalIncome - totalExpense
  IN [asked |-> TRUE, projectId |-> projectId,
      income |-> [total |-> totalIncome, pending |-> pendingIncome],
      expense |-> [total |-> totalExpense, materials |-> materialExpense,
                   labor |-> laborExpense, pending |-> pendingExpense],
      profit |-> [current |-> profit, margin |-> Margin(profit, totalIncome)]]

\* ------------------------------------------ GET /api/analytics/overview
Overview(projectId) ==
  /\ overview' = OverviewData(projectId)
  /\ resp' = Response("overview", 0, 200)
  /\ UNCHANGED <<payVars, matVars, workerLogs, leads, inflight>>

\* ----------------------------------- GET /api/analytics/weekly-workforce
\* const { weeks = 12 } = req.query
weeksDefault == 12

WeeksQuery(hasWeeks, weeks) == [hasWeeks |-> hasWeeks, weeks |-> weeks]

WeeksAsked(query) == IF query.hasWeeks THEN query.weeks ELSE weeksDefault

\* weekStart.setDate(weekStart.getDate() - 6)
WeekStart(weekEnd) == weekEnd - 6 * DayTicks

\* toISOString().split('T')[0]: the day an instant falls on
IsoDate(instant) == instant \div DayTicks

\* the entry pushed for loop index i
WeekData(now, i) ==
  LET weekEnd == now - (i * 7) * DayTicks
      weekStart == WeekStart(weekEnd)
      logs == {id \in DOMAIN workerLogs :
                 workerLogs[id].date >= weekStart /\ workerLogs[id].date <= weekEnd}
  IN [weekStart |-> IsoDate(weekStart), weekEnd |-> IsoDate(weekEnd),
      totalWage |-> SumOver(logs, [id \in logs |-> workerLogs[id].totalWage], 0),
      workerCount |-> SumOver(logs, [id \in logs |-> workerLogs[id].count], 0),
      logCount |-> Cardinality(logs)]

\* for (let i = parseInt(weeks) - 1; i >= 0; i--)
WeeksData(now, weeks) == [k \in 1..weeks |-> WeekData(now, weeks - k)]

WeeklyWorkforce(query, now) ==
  /\ overview' = [asked |-> TRUE, weeks |-> WeeksAsked(query), now |-> now,
                  data |-> WeeksData(now, WeeksAsked(query))]
  /\ resp' = Response("weeklyWorkforce", 0, 200)
  /\ UNCHANGED <<payVars, matVars, workerLogs, leads, inflight>>

\* ============================== requests of two callers served concurrently
\* A handler is a sequence of awaits; the event loop may serve another
\* request between the findUnique of a handler and its writes.
InFlight(op, id, body, read) ==
  [pc |-> "read", op |-> op, id |-> id, body |-> body, read |-> read, totalPaid |-> 0]

RowRead_Fresh(c, current) == current

\* the row the handler of caller c computes with: the one its findUnique returned
RowRead(c, current) == inflight[c].read

\* the handler has answered; what it read is kept for the record
Served(c) == [inflight EXCEPT ![c].pc = "idle"]

\* POST /api/materials/:id/payment up to the answer of findUnique
BeginMaterialPayment(c, id, amount) ==
  /\ inflight[c].pc = "idle"
  /\ IF id \notin DOMAIN materials
     THEN /\ resp' = ResponseTo("materialPayment", id, 404, Body(TRUE, amount, FALSE))
          /\ UNCHANGED inflight
     ELSE /\ inflight' = [inflight EXCEPT ![c] =
                 InFlight("materialPayment", id, Body(TRUE, amount, FALSE), materials[id])]
          /\ UNCHANGED resp
  /\ UNCHANGED <<payVars, matVars, workerLogs, leads, overview>>

\* ... and from there to the response
FinishMaterialPayment(c) ==
  /\ inflight[c].pc = "read" /\ inflight[c].op = "materialPayment"
  /\ LET id == inflight[c].id IN
       MaterialPaymentWrites(id, inflight[c].body.amount, RowRead(c, materials[id]), "none")
  /\ inflight' = Served(c)
  /\ UNCHANGED <<payVars, rawOrders, rawPayments, workerLogs, leads, overview>>

\* POST /api/payments/:id/confirm-payment up to its two early returns
BeginConfirmPayment(c, id, body) ==
  /\ inflight[c].pc = "idle"
  /\ IF id \notin DOMAIN payments
     THEN /\ resp' = ResponseTo("confirmPayment", id, 404, body)
          /\ UNCHANGED inflight
     ELSE IF ~BothAcknowledged(payments[id])
     THEN /\ resp' = ResponseTo("confirmPayment", id, 400, body)
          /\ UNCHANGED inflight
     ELSE /\ inflight' = [inflight EXCEPT ![c] = InFlight("confirmPayment", id, body, payments[id])]
          /\ UNCHANGED resp
  /\ UNCHANGED <<payVars, matVars, workerLogs, leads, overview>>

\* ... and from there to the response
FinishConfirmPayment(c) ==
  /\ inflight[c].pc = "read" /\ inflight[c].op = "confirmPayment"
  /\ LET id == inflight[c].id IN
       ConfirmPaymentWrites(id, inflight[c].body, RowRead(c, payments[id]), "none")
  /\ inflight' = Served(c)
  /\ UNCHANGED <<matVars, workerLogs, leads, overview>>

\* The same handler, await by await: after the early returns it creates the
\* PartPayment row and updates the milestone, ...
WriteConfirmedPayment(c) ==
  /\ inflight[c].pc = "read" /\ inflight[c].op = "confirmPayment"
  /\ LET id == inflight[c].id
         body == inflight[c].body
         existingPayment == RowRead(c, payments[id])
         paymentAmount == PaymentAmount(body, existingPayment)
         newPaidAmount == existingPayment.paidAmount + paymentAmount
         isFullyPaid == IsFullyPaid(newPaidAmount, existingPayment)
     IN /\ newPaidAmount \in -MaxDebt..MaxPaid
        /\ IF RecordsPartPayment(body.isPartPayment, isFullyPaid)
           THEN /\ BagCardinality(partPayments[id]) < MaxPartPayments
                /\ partPayments' = [partPayments EXCEPT ![id] = AddRow(@, paymentAmount)]
           ELSE UNCHANGED partPayments
        /\ payments' = [payments EXCEPT ![id].paidAmount = newPaidAmount,
                                        ![id].paidDate = isFullyPaid,
                                        ![id].status = IF isFullyPaid THEN "PAID" ELSE "PARTIAL",
                                        ![id].isPartPayment = ~isFullyPaid]
  /\ inflight' = [inflight EXCEPT ![c].pc = "updated"]
  /\ UNCHANGED <<projects, notifications, resp, matVars, workerLogs, leads, overview>>

\* ... reads the milestones of the project and adds up what is paid, ...
SumProjectPayments(c) ==
  /\ inflight[c].pc = "updated"
  /\ inflight' = [inflight EXCEPT
                    ![c].pc = "summed",
                    ![c].totalPaid = TotalPaid(payments, inflight[c].read.projectId)]
  /\ UNCHANGED <<payVars, resp, matVars, workerLogs, leads, overview>>

\* ... and writes the sum to the project, notifies the client and answers
WriteProjectSpent(c) ==
  /\ inflight[c].pc = "summed"
  /\ LET id == inflight[c].id
         existingPayment == inflight[c].read
         project == projects[existingPayment.projectId]
         newPaidAmount == existingPayment.paidAmount
                            + PaymentAmount(inflight[c].body, existingPayment)
         isFullyPaid == IsFullyPaid(newPaidAmount, existingPayment)
     IN /\ NotifyRoom(project.clientId)
        /\ projects' = [projects EXCEPT
                          ![existingPayment.projectId].spent = inflight[c].totalPaid]
        /\ notifications' = Notify(project.clientId, "SUCCESS",
                                   IF isFullyPaid THEN "Payment Confirmed"
                                   ELSE "Part Payment Confirmed")
        /\ resp' = ResponseTo("confirmPayment", id, 200, inflight[c].body)
  /\ inflight' = Served(c)
  /\ UNCHANGED <<payments, partPayments, matVars, workerLogs, leads, overview>>

\* the milestone each caller confirms payments on
MilestoneOf == [c \in CallerIds |-> IF c = "a" THEN 1 ELSE 2]

vars == <<payments, partPayments, projects, notifications,
          materials, materialPayments, vendors, rawOrders, rawPayments,
          workerLogs, leads, inflight, overview, resp>>

\* the milestone workflow, on one milestone
NextPay ==
  \/ \E p \in ProjectIds, a \in 1..MaxAmount :
        DOMAIN payments = {} /\ CreatePayment(p, a)
  \/ \E id \in PayIds : RequestAcknowledgment(id)
  \/ \E id \in PayIds, accepted \in BOOLEAN : ClientAcknowledge(id, accepted)
  \/ \E id \in PayIds, body \in Bodies : ConfirmPayment(id, body)
  \/ \E id \in PayIds, a \in 1..MaxAmount : UpdatePayment(id, a)
  \/ \E i \in 1..MaxNotifications : DeleteNotification(i)

\* creation, acknowledgment and confirmation of the milestones of a project
NextSpent ==
  \/ \E p \in ProjectIds, a \in 1..MaxAmount : CreatePayment(p, a)
  \/ \E id \in PayIds : RequestAcknowledgment(id)
  \/ \E id \in PayIds : ClientAcknowledge(id, TRUE)
  \/ \E id \in PayIds, a \in 0..MaxAmount : ConfirmPayment(id, Body(a > 0, a, FALSE))
  \/ \E i \in 1..MaxNotifications : DeleteNotification(i)

\* every milestone operation, on one milestone created directly or on the
\* milestones of a templated setup; the oldest notification is the one
\* deleted
NextMilestones ==
  \/ \E p \in ProjectIds, a \in 1..MaxAmount :
        DOMAIN payments = {} /\ CreatePayment(p, a)
  \/ \E p \in ProjectIds \cup {"nope"}, milestones \in Schedules :
        DOMAIN payments = {} /\ SetupPayments(p, milestones)
  \/ \E id \in DOMAIN payments, a \in 1..MaxAmount : UpdatePayment(id, a)
  \/ \E id \in DOMAIN payments : RequestAcknowledgment(id)
  \/ \E id \in DOMAIN payments, accepted \in BOOLEAN : ClientAcknowledge(id, accepted)
  \/ \E id \in DOMAIN payments, a \in 0..MaxAmount :
        ConfirmPayment(id, Body(a > 0, a, FALSE))
  \/ DeleteNotification(1)

\* the acknowledgment workflow of one milestone, in which any authenticated
\* user may send the client's acknowledgment
NextAuth ==
  \/ \E p \in ProjectIds, a \in 1..MaxAmount :
        DOMAIN payments = {} /\ CreatePayment(p, a)
  \/ \E id \in PayIds : RequestAcknowledgment(id)
  \/ \E user \in Users, id \in PayIds, accepted \in BOOLEAN :
        ClientAcknowledgeBy(user, id, accepted)
  \/ \E id \in PayIds, a \in 0..MaxAmount : ConfirmPayment(id, Body(a > 0, a, FALSE))
  \/ \E i \in 1..MaxNotifications : DeleteNotification(i)

\* the milestone workflow in which the notification may fail to be created
NextNotifyFail ==
  \/ \E p \in ProjectIds, a \in 1..MaxAmount, failAt \in NotifyFailPoints :
        DOMAIN payments = {} /\ CreatePaymentStep(p, a, failAt)
  \/ \E id \in PayIds, failAt \in NotifyFailPoints : RequestAcknowledgmentStep(id, failAt)
  \/ \E id \in PayIds, failAt \in NotifyFailPoints : ClientAcceptStep(id, failAt)
  \/ \E id \in PayIds, body \in Bodies, failAt \in NotifyFailPoints :
        ConfirmPaymentStep(id, body, failAt)
  \/ \E i \in 1..MaxNotifications : DeleteNotification(i)

\* material-order creations and payment postings only
NextLedger ==
  \/ \E v \in VendorIds \cup {NoVendor}, q \in 0..MaxQuantity, pr \in 1..MaxPrice :
        CreateMaterial(v, q, pr)
  \/ \E id \in MaterialIds, a \in PostedAmounts : PostMaterialPayment(id, a)

NextRaw ==
  \/ \E q \in 0..MaxQuantity, pr \in 1..MaxPrice : CreateRawOrder(q, pr)
  \/ \E id \in RawOrderIds, a \in PostedAmounts : PostRawPayment(id, a)

\* creations and payment postings, on the material orders or on one
\* raw-material order
NextPostings ==
  \/ \E v \in VendorIds \cup {NoVendor}, q \in 0..MaxQuantity, pr \in 1..MaxPrice :
        DOMAIN rawOrders = {} /\ CreateMaterial(v, q, pr)
  \/ \E id \in DOMAIN materials, a \in PostedAmounts : PostMaterialPayment(id, a)
  \/ \E q \in 0..MaxQuantity, pr \in 1..MaxPrice :
        DOMAIN materials = {} /\ DOMAIN rawOrders = {} /\ CreateRawOrder(q, pr)
  \/ \E id \in DOMAIN rawOrders, a \in PostedAmounts : PostRawPayment(id, a)

\* every operation of the materials router, on one order at a time
NextMat ==
  \/ \E v \in VendorIds \cup {NoVendor}, q \in 0..MaxQuantity, pr \in 1..MaxPrice :
        DOMAIN materials = {} /\ CreateMaterial(v, q, pr)
  \/ \E id \in MaterialIds, a \in PostedAmounts : PostMaterialPayment(id, a)
  \/ \E id \in MaterialIds, body \in MaterialBodies : UpdateMaterial(id, body)
  \/ \E id \in MaterialIds, cascade \in BOOLEAN : DeleteMaterial(id, cascade)

\* postings in which a database call may throw, on one order
NextFail ==
  \/ \E v \in VendorIds \cup {NoVendor}, q \in 0..MaxQuantity, pr \in 1..MaxPrice :
        DOMAIN materials = {} /\ CreateMaterial(v, q, pr)
  \/ \E id \in MaterialIds, a \in PostedAmounts : PostMaterialPayment(id, a)
  \/ \E id \in MaterialIds, a \in PostedAmounts : PostMaterialPaymentFailing(id, a)

\* two callers posting payments to one material order or to one milestone
NextRace ==
  \/ \E v \in VendorIds \cup {NoVendor}, q \in 1..MaxQuantity, pr \in 1..MaxPrice :
        DOMAIN materials = {} /\ DOMAIN payments = {} /\ CreateMaterial(v, q, pr)
  \/ \E p \in ProjectIds, a \in 1..MaxAmount :
        DOMAIN materials = {} /\ DOMAIN payments = {} /\ CreatePayment(p, a)
  \/ \E id \in DOMAIN payments : RequestAcknowledgment(id)
  \/ \E id \in DOMAIN payments : ClientAcknowledge(id, TRUE)
  \/ \E i \in 1..MaxNotifications : DeleteNotification(i)
  \/ \E c \in CallerIds, id \in DOMAIN materials, a \in 1..MaxAmount :
        BeginMaterialPayment(c, id, a)
  \/ \E c \in CallerIds : FinishMaterialPayment(c)
  \/ \E c \in CallerIds, id \in DOMAIN payments, a \in 1..MaxAmount :
        BeginConfirmPayment(c, id, Body(TRUE, a, FALSE))
  \/ \E c \in CallerIds : FinishConfirmPayment(c)

\* two callers confirming payments, each on its own milestone of the two of
\* a project; each milestone is acknowledged once by either side
NextRaceSpent ==
  \/ \E p \in ProjectIds, a \in 1..MaxAmount : CreatePayment(p, a)
  \/ \E id \in DOMAIN payments :
        ~payments[id].adminAcknowledged /\ RequestAcknowledgment(id)
  \/ \E id \in DOMAIN payments :
        ~payments[id].clientAcknowledged /\ ClientAcknowledge(id, TRUE)
  \/ \E i \in 1..MaxNotifications : DeleteNotification(i)
  \/ \E c \in CallerIds, a \in 1..MaxAmount :
        /\ DOMAIN payments = PayIds
        /\ BeginConfirmPayment(c, MilestoneOf[c], Body(TRUE, a, FALSE))
  \/ \E c \in CallerIds : WriteConfirmedPayment(c)
  \/ \E c \in CallerIds : SumProjectPayments(c)
  \/ \E c \in CallerIds : WriteProjectSpent(c)

\* the workforce router
NextWork ==
  \/ \E p \in ProjectIds, body \in WorkerLogBodies : CreateWorkerLog(p, body)
  \/ \E id \in WorkerLogIds, body \in WorkerLogBodies : UpdateWorkerLog(id, body)
  \/ \E id \in WorkerLogIds : PayWorkerLog(id)
  \/ \E p \in ProjectIds \cup {""} : PayAllWorkerLogs(p)
  \/ \E id \in WorkerLogIds : DeleteWorkerLog(id)

\* worker logs of any date, and then the weekly trend asked on the last day
\* or half a day before it
NextWeekly ==
  \/ \E p \in ProjectIds, x \in Counts, logDate \in Dates :
        ~overview.asked /\ CreateWorkerLogAt(p, [EmptyWorkerLogBody EXCEPT !.count = x], logDate)
  \/ \E id \in DOMAIN workerLogs : ~overview.asked /\ DeleteWorkerLog(id)
  \/ \E weeks \in 1..MaxWeeks, now \in {Horizon - 1, Horizon} :
        WeeklyWorkforce(WeeksQuery(TRUE, weeks), now)
  \/ \E now \in {Horizon - 1, Horizon} : WeeklyWorkforce(WeeksQuery(FALSE, 0), now)

\* the leads router
NextLead ==
  \/ CreateLead
  \/ \E id \in LeadIds, stage \in Stages : UpdateLead(id, stage)
  \/ \E id \in LeadIds, stage \in Stages : MoveLeadStage(id, stage)
  \/ \E id \in LeadIds : ConvertLead(id)
  \/ \E id \in LeadIds : LoseLead(id)
  \/ \E id \in LeadIds : DeleteLead(id)

\* one worker log, then one material order, then one milestone of a
\* project, and then the financial overview
NextOverview ==
  \/ /\ ~overview.asked /\ DOMAIN materials = {} /\ DOMAIN payments = {}
     /\ \/ \E p \in ProjectIds, x \in Hours :
              /\ DOMAIN workerLogs = {}
              /\ CreateWorkerLog(p, [EmptyWorkerLogBody EXCEPT !.hoursWorked = x])
        \/ \E id \in DOMAIN workerLogs : PayWorkerLog(id)
  \/ /\ ~overview.asked /\ DOMAIN payments = {}
     /\ \/ \E q \in 1..MaxQuantity, pr \in 1..MaxPrice :
              DOMAIN materials = {} /\ CreateMaterial(NoVendor, q, pr)
        \/ \E id \in DOMAIN materials, a \in 1..MaxAmount : PostMaterialPayment(id, a)
  \/ /\ ~overview.asked
     /\ \/ \E p \in ProjectIds, a \in 1..MaxAmount :
              DOMAIN payments = {} /\ CreatePayment(p, a)
        \/ \E id \in DOMAIN payments : RequestAcknowledgment(id)
        \/ \E id \in DOMAIN payments : ClientAcknowledge(id, TRUE)
        \/ \E id \in DOMAIN payments, a \in 0..MaxAmount :
              ConfirmPayment(id, Body(a > 0, a, FALSE))
        \/ \E i \in 1..MaxNotifications : DeleteNotification(i)
  \/ \E p \in ProjectIds \cup {""} : Overview(p)

Next == NextPay \/ NextMat \/ NextRaw

Spec == Init /\ [][Next]_vars
SpecPay == Init /\ [][NextPay]_vars
SpecSpent == Init /\ [][NextSpent]_vars
SpecAuth == Init /\ [][NextAuth]_vars
SpecMilestones == Init /\ [][NextMilestones]_vars
SpecNotifyFail == Init /\ [][NextNotifyFail]_vars
SpecMat == Init /\ [][NextMat]_vars
SpecLedger == Init /\ [][NextLedger]_vars
SpecRaw == Init /\ [][NextRaw]_vars
SpecPostings == Init /\ [][NextPostings]_vars
SpecFail == Init /\ [][NextFail]_vars
SpecRace == Init /\ [][NextRace]_vars
SpecRaceSpent == Init /\ [][NextRaceSpent]_vars
SpecWork == Init /\ [][NextWork]_vars
SpecLead == Init /\ [][NextLead]_vars
SpecWeekly == Init /\ [][NextWeekly]_vars
SpecOverview == Init /\ [][NextOverview]_vars
\* ==================================================== properties checked
\* the sum of the amounts of the rows of a child table that are for vendor v
AmountFor(rows, v) ==
  SumOver({r \in BagToSet(rows) : r.vendorId = v},
          [r \in BagToSet(rows) |-> r.amount * CopiesIn(r, rows)], 0)

AmountOf(rows) ==
  SumOver(BagToSet(rows), [r \in BagToSet(rows) |-> r.amount * CopiesIn(r, rows)], 0)

AllPositive(rows) == \A r \in BagToSet(rows) : r.amount > 0

\* what has been posted to the orders of vendor v, over all child rows
PostedTo(v) ==
  SumOver(DOMAIN materialPayments,
          [id \in DOMAIN materialPayments |-> AmountFor(materialPayments[id], v)], 0)

OrdersOf(v) == {id \in DOMAIN materials : materials[id].vendorId = v}

\* C1: confirmPayment on an existing milestone answers 200 exactly when both
\* adminAcknowledged and clientAcknowledged are set; in the three other
\* combinations it answers 400 and leaves the milestone, its part payments
\* and the project's spent as they were.
C1_ConfirmNeedsBothAcks ==
  [][\A id \in DOMAIN payments :
       (resp'.op = "confirmPayment" /\ resp'.id = id) =>
         IF payments[id].adminAcknowledged /\ payments[id].clientAcknowledged
         THEN resp'.code = 200
         ELSE /\ resp'.code = 400
              /\ payments' = payments
              /\ partPayments' = partPayments
              /\ projects' = projects]_vars

\* a confirmation was refused on a milestone only the client has acknowledged
C1_Witness ==
  /\ resp.op = "confirmPayment" /\ resp.code = 400
  /\ resp.id \in DOMAIN payments
  /\ payments[resp.id].clientAcknowledged
  /\ ~payments[resp.id].adminAcknowledged

\* C2: a client-acknowledge call with accepted = false leaves every
\* milestone (status, paidAmount, both flags), the part payments and the
\* project untouched; its only effect is one ALERT notification to the user
\* who created the project.
C2_RejectChangesNothing ==
  [][resp'.op = "clientReject" =>
       /\ payments' = payments
       /\ partPayments' = partPayments
       /\ projects' = projects
       /\ \A id \in DOMAIN payments : resp'.id = id =>
            notifications' = Append(notifications,
              [userId |-> projects[payments[id].projectId].createdById,
               type |-> "ALERT", title |-> "Payment Acknowledgment Rejected"])]_vars

\* the client rejected a milestone that is waiting for the client
C2_Witness ==
  /\ resp.op = "clientReject"
  /\ resp.id \in DOMAIN payments
  /\ payments[resp.id].status = "AWAITING_CLIENT"
  /\ notifications # <<>>
  /\ notifications[Len(notifications)].type = "ALERT"
  /\ notifications[Len(notifications)].userId = Admin

\* C3: every material ledger has remaining = max(0, total - paid) and a
\* payment status that is PAID iff remaining = 0, else PARTIAL iff paid > 0,
\* else PENDING (also for orders of total 0 and postings of amount 0).
C3_LedgerInvariant ==
  /\ \A id \in DOMAIN materials :
       LET m == materials[id] IN
       /\ m.remainingAmount = Max(0, m.totalCost - m.paidAmount)
       /\ m.paymentStatus = IF m.remainingAmount = 0 THEN "PAID"
                            ELSE IF m.paidAmount > 0 THEN "PARTIAL" ELSE "PENDING"
  /\ \A id \in DOMAIN rawOrders :
       LET o == rawOrders[id] IN
       o.paymentStatus = IF Max(0, o.totalAmount - o.paidAmount) = 0 THEN "PAID"
                         ELSE IF o.paidAmount > 0 THEN "PARTIAL" ELSE "PENDING"

\* C4: after a posting on a material order, if all postings on the order
\* were positive and sum to its total, the order is PAID with remaining 0;
\* a posting larger than the remaining amount leaves remaining 0, and the
\* remaining amount is never negative.
C4_PaymentsSumToTotal ==
  [][\A id \in DOMAIN materials :
       (resp'.op = "materialPayment" /\ resp'.id = id /\ resp'.code = 200) =>
         /\ (AllPositive(materialPayments'[id])
               /\ AmountOf(materialPayments'[id]) = materials'[id].totalCost)
            => (materials'[id].paymentStatus = "PAID" /\ materials'[id].remainingAmount = 0)
         /\ resp'.body.amount > materials[id].remainingAmount
            => materials'[id].remainingAmount = 0
         /\ materials'[id].remainingAmount >= 0]_vars

\* two positive postings have paid off an order of total 2
C4_Witness ==
  \E id \in DOMAIN materials :
    /\ BagCardinality(materialPayments[id]) = 2
    /\ AllPositive(materialPayments[id])
    /\ materials[id].totalCost = 2
    /\ AmountOf(materialPayments[id]) = 2
    /\ materials[id].paymentStatus = "PAID"

\* C5: a posting of an amount <= 0 on an existing material order or
\* raw-material order is answered 400 and changes neither the order, its
\* child payment rows nor the vendor counters.
C5_NonPositiveRejected ==
  [][/\ \A id \in DOMAIN materials :
          (resp'.op = "materialPayment" /\ resp'.id = id /\ resp'.body.amount <= 0) =>
             (resp'.code = 400 /\ UNCHANGED <<materials, materialPayments, vendors>>)
     /\ \A id \in DOMAIN rawOrders :
          (resp'.op = "rawPayment" /\ resp'.id = id /\ resp'.body.amount <= 0) =>
             (resp'.code = 400 /\ UNCHANGED <<rawOrders, rawPayments>>)]_vars

\* C6: no step lowers the paidAmount of a material order, a raw-material
\* order or a payment milestone.
C6_PaidNeverDecreases ==
  [][/\ \A id \in DOMAIN materials \cap DOMAIN materials' :
          materials'[id].paidAmount >= materials[id].paidAmount
     /\ \A id \in DOMAIN rawOrders \cap DOMAIN rawOrders' :
          rawOrders'[id].paidAmount >= rawOrders[id].paidAmount
     /\ \A id \in DOMAIN payments \cap DOMAIN payments' :
          payments'[id].paidAmount >= payments[id].paidAmount]_vars

\* C7: with X the sum of the amounts posted to a vendor's orders, the
\* vendor's totalPaid is X and its pendingAmount is what the orders added
\* to it (totalAmount) less X, however X is split over postings and orders.
C7_VendorFollowsPostings ==
  \A v \in VendorIds :
    /\ vendors[v].totalPaid = PostedTo(v)
    /\ vendors[v].pendingAmount = vendors[v].totalAmount - PostedTo(v)

\* two postings of different amounts were made for the vendor
C7_Witness ==
  \E id \in DOMAIN materials :
    /\ materials[id].vendorId = "v1"
    /\ BagCardinality(materialPayments[id]) = 2
    /\ Cardinality(BagToSet(materialPayments[id])) = 2
    /\ AllPositive(materialPayments[id])
    /\ vendors["v1"].totalPaid = 3

\* C8: the vendor counters agree with the vendor's orders: totalOrders is
\* their number, totalAmount, totalPaid and pendingAmount are the sums of
\* their totalCost, paidAmount and remainingAmount.
C8_VendorAgreesWithOrders ==
  \A v \in VendorIds :
    /\ vendors[v].totalOrders = Cardinality(OrdersOf(v))
    /\ vendors[v].totalAmount =
         SumOver(OrdersOf(v), [id \in DOMAIN materials |-> materials[id].totalCost], 0)
    /\ vendors[v].totalPaid =
         SumOver(OrdersOf(v), [id \in DOMAIN materials |-> materials[id].paidAmount], 0)
    /\ vendors[v].pendingAmount =
         SumOver(OrdersOf(v), [id \in DOMAIN materials |-> materials[id].remainingAmount], 0)

\* C9: a posting of a positive amount on a vendor-linked order is
\* all-or-nothing: the payment row, the order and the vendor counters are
\* all updated by it, or none of them is.
C9_PostingAllOrNothing ==
  [][\A id \in DOMAIN materials :
       (/\ resp'.op = "materialPayment" /\ resp'.id = id
        /\ resp'.body.amount > 0 /\ materials[id].vendorId # NoVendor) =>
         LET v == materials[id].vendorId
             a == resp'.body.amount
         IN \/ UNCHANGED <<materials, materialPayments, vendors>>
            \/ /\ BagCardinality(materialPayments'[id]) = BagCardinality(materialPayments[id]) + 1
               /\ materials'[id].paidAmount = materials[id].paidAmount + a
               /\ vendors'[v].totalPaid = vendors[v].totalPaid + a
               /\ vendors'[v].pendingAmount = vendors[v].pendingAmount - a]_vars

\* C10: a confirmation without an amount on a milestone that is not yet
\* paid beyond its amount applies the remaining amount, so that paidAmount
\* ends equal to the milestone's amount.
C10_DefaultIsRemaining ==
  [][\A id \in DOMAIN payments :
       (/\ resp'.op = "confirmPayment" /\ resp'.id = id /\ resp'.code = 200
        /\ ~resp'.body.hasAmount
        /\ payments[id].paidAmount >= 0
        /\ payments[id].paidAmount <= payments[id].amount)
       => payments'[id].paidAmount = payments[id].amount]_vars

\* C11: after every completed confirmPayment the project's spent is the sum
\* of paidAmount over the project's milestones, whatever the order of the
\* confirmations: two milestones of amounts 1 and 2, fully confirmed in
\* either order, give spent 3.
C11_SpentIsSumOfPaid ==
  [][\A id \in DOMAIN payments :
       (resp'.op = "confirmPayment" /\ resp'.id = id /\ resp'.code = 200) =>
         LET p == payments[id].projectId
             mine == {i \in DOMAIN payments' : payments'[i].projectId = p}
         IN /\ projects'[p].spent =
                 SumOver(mine, [i \in DOMAIN payments' |-> payments'[i].paidAmount], 0)
            /\ (/\ \A i \in mine : payments'[i].paidAmount = payments'[i].amount
                /\ {payments'[i].amount : i \in mine} = {1, 2}
                /\ Cardinality(mine) = 2)
               => projects'[p].spent = 3]_vars

\* the milestone created first (amount 1) was confirmed after the one
\* created second (amount 2); both are fully paid and spent is 3
C11_Witness ==
  /\ resp.op = "confirmPayment" /\ resp.code = 200 /\ resp.id = 1
  /\ DOMAIN payments = {1, 2}
  /\ payments[1].amount = 1 /\ payments[2].amount = 2
  /\ \A i \in {1, 2} : payments[i].status = "PAID" /\ payments[i].paidAmount = payments[i].amount
  /\ projects["p1"].spent = 3

\* the paidAmount of the row a request is about
StoredPaid(op, id, mats, pays) ==
  IF op = "materialPayment" THEN mats[id].paidAmount ELSE pays[id].paidAmount

\* caller c has read and caller d has answered since, both for the same row
\* and both having read the same paidAmount, which d's write has replaced
ReadBeforeEitherWrote(c, d) ==
  /\ inflight[c].pc = "read" /\ inflight[d].pc = "idle"
  /\ inflight[d].op = inflight[c].op /\ inflight[d].id = inflight[c].id
  /\ inflight[d].read.paidAmount = inflight[c].read.paidAmount
  /\ StoredPaid(inflight[c].op, inflight[c].id, materials, payments)
       = inflight[d].read.paidAmount + inflight[d].body.amount

\* C12: posting is an unguarded read-modify-write of paidAmount: the write
\* of a posting stores what the request read plus its amount, whatever has
\* been written since; so when two postings of amounts a and b read the same
\* paidAmount before either writes, the second write leaves less than that
\* paidAmount + a + b (a lost update).
C12_LostUpdate ==
  [][\A c \in CallerIds :
       (inflight[c].pc = "read" /\ inflight'[c].pc = "idle") =>
         LET op == inflight[c].op
             id == inflight[c].id
             read == inflight[c].read.paidAmount
             a == inflight[c].body.amount
         IN /\ StoredPaid(op, id, materials', payments') = read + a
            /\ \A d \in CallerIds \ {c} : ReadBeforeEitherWrote(c, d) =>
                 StoredPaid(op, id, materials', payments')
                   < read + a + inflight[d].body.amount]_vars

\* both callers have posted a payment to the same material order having read
\* the same paidAmount, and the order holds less than that plus the two
\* amounts, and less than its two payment rows add up to
C12_Witness ==
  /\ \A c \in CallerIds : inflight[c].pc = "idle" /\ inflight[c].op = "materialPayment"
  /\ inflight["a"].id = inflight["b"].id
  /\ inflight["a"].read.paidAmount = inflight["b"].read.paidAmount
  /\ LET id == inflight["a"].id IN
       /\ materials[id].paidAmount
            < inflight["a"].read.paidAmount + inflight["a"].body.amount + inflight["b"].body.amount
       /\ BagCardinality(materialPayments[id]) = 2
       /\ AllPositive(materialPayments[id])
       /\ materials[id].paidAmount < AmountOf(materialPayments[id])

\* the multiplier of each shift, in quarters: 1.0, 1.25, 1.5, 0.5
ClaimedMultiplier(shift) ==
  CASE shift = "DAY" -> 4
    [] shift = "NIGHT" -> 5
    [] shift = "FULL_DAY" -> 6
    [] shift = "HALF_DAY" -> 2

\* the two-branch rule, in 1/128 of a currency unit: (hours/8) * (m/4) * (f/4)
\* is hours * m * f / 128, and (1/8) * 1.5 * (m/4) is 6 * m / 128
ClaimedWage(log) ==
  LET m == ClaimedMultiplier(log.shift)
      f == log.shiftFraction
      base == log.count * log.ratePerWorker
  IN IF log.hoursWorked <= 8
     THEN base * log.hoursWorked * m * f
     ELSE base * 8 * m * f + base * (log.hoursWorked - 8) * 6 * m

\* C13: the wage of every worker log follows the two-branch rule with
\* multiplier 1.0 / 1.25 / 1.5 / 0.5 for DAY / NIGHT / FULL_DAY / HALF_DAY:
\* up to 8 hours count * rate * (hours/8) * multiplier * fraction, above it
\* count * rate * multiplier * fraction plus the overtime part
\* count * (rate/8) * (hours - 8) * 1.5 * multiplier; 5 workers at 800 on a
\* full DAY shift earn 4000 for 8 hours and 5500 for 10.
C13_WageRule ==
  \A id \in DOMAIN workerLogs :
    LET log == workerLogs[id] IN
    /\ log.totalWage = ClaimedWage(log)
    /\ (log.hoursWorked = 8) =>
         log.totalWage * 16 = Money(log.count * log.ratePerWorker)
                                * ClaimedMultiplier(log.shift) * log.shiftFraction
    /\ (log.count = 5 /\ log.ratePerWorker = 800 /\ log.shift = "DAY" /\ log.shiftFraction = 4) =>
         /\ log.hoursWorked = 8 => log.totalWage = Money(4000)
         /\ log.hoursWorked = 10 => log.totalWage = Money(5500)

\* 5 masons at 800 worked a 10-hour DAY shift: 5500
C13_Witness ==
  \E id \in DOMAIN workerLogs :
    LET log == workerLogs[id] IN
    /\ log.count = 5 /\ log.ratePerWorker = 800 /\ log.shift = "DAY"
    /\ log.shiftFraction = 4 /\ log.hoursWorked = 10
    /\ log.totalWage = Money(5500)

\* C14: after any sequence of create, update, pay and pay-all, the totalWage
\* of every stored worker log is calculateWage of the log's stored count,
\* ratePerWorker, hoursWorked, shift and shiftFraction; a totalWage sent in
\* a request is never stored.
C14_WageIsDerived ==
  \A id \in DOMAIN workerLogs :
    LET log == workerLogs[id] IN
    log.totalWage = calculateWage(log.count, log.ratePerWorker, log.hoursWorked,
                                  log.shift, log.shiftFraction)

\* two logs, edited to a 10-hour NIGHT shift and a half HALF_DAY shift, have
\* been paid by one pay-all
C14_Witness ==
  /\ resp.op = "payAllWorkerLogs"
  /\ DOMAIN workerLogs = WorkerLogIds
  /\ \A id \in WorkerLogIds : workerLogs[id].status = "PAID"
  /\ workerLogs[1].shift = "NIGHT" /\ workerLogs[1].hoursWorked = 10
  /\ workerLogs[2].shift = "HALF_DAY" /\ workerLogs[2].shiftFraction = 2

\* C15: an edit of the quantity or the unit price of a material order
\* leaves totalCost = quantity * unitPrice and remainingAmount =
\* max(0, totalCost - paidAmount), never negative, also when the new total
\* is below what has been paid.
C15_EditClampsRemaining ==
  [][\A id \in DOMAIN materials :
       (/\ resp'.op = "updateMaterial" /\ resp'.id = id /\ resp'.code = 200
        /\ \/ materials'[id].quantity # materials[id].quantity
           \/ materials'[id].unitPrice # materials[id].unitPrice) =>
         LET m == materials'[id] IN
         /\ m.totalCost = m.quantity * m.unitPrice
         /\ m.remainingAmount = Max(0, m.totalCost - m.paidAmount)
         /\ m.remainingAmount >= 0]_vars

\* C16: when the creation of the notification fails in milestone creation,
\* requestAcknowledgment, clientAcknowledge or confirmPayment (the request
\* is answered 500 and no notification is added), the mutation made before
\* it stays: the new milestone, the flags and status, the paid amount and
\* the project's spent.
C16_NotificationFailureKeepsMutation ==
  [][(resp'.code = 500 /\ notifications' = notifications) =>
       /\ resp'.op = "createPayment" =>
            /\ resp'.id \in DOMAIN payments' \ DOMAIN payments
            /\ payments'[resp'.id].status = "PENDING"
       /\ \A id \in DOMAIN payments : resp'.id = id =>
            /\ resp'.op = "requestAcknowledgment" =>
                 /\ payments'[id].adminAcknowledged
                 /\ payments'[id].status = "AWAITING_CLIENT"
            /\ resp'.op = "clientAccept" =>
                 /\ payments'[id].clientAcknowledged
                 /\ payments'[id].status = "AWAITING_ADMIN"
            /\ resp'.op = "confirmPayment" =>
                 /\ payments'[id].paidAmount # payments[id].paidAmount
                 /\ payments'[id].paidAmount - payments[id].paidAmount
                      \in {resp'.body.amount, payments[id].amount}
                 /\ payments'[id].status \in {"PAID", "PARTIAL"}
                 /\ projects'[payments[id].projectId].spent = payments'[id].paidAmount]_vars

\* a confirmation was answered 500 for want of the notification; the
\* milestone is PAID, the project's spent holds the payment and no
\* notification was stored
C16_Witness ==
  /\ resp.op = "confirmPayment" /\ resp.code = 500
  /\ resp.id \in DOMAIN payments
  /\ payments[resp.id].status = "PAID"
  /\ payments[resp.id].paidAmount = payments[resp.id].amount
  /\ projects[payments[resp.id].projectId].spent = payments[resp.id].amount
  /\ notifications = <<>>

\* C17: after a successful confirmPayment the milestone is PAID exactly when
\* its new paidAmount has reached its amount (nothing remains) and PARTIAL
\* otherwise; so a PARTIAL milestone stays PARTIAL under further
\* confirmations until nothing remains, and then is PAID.
C17_PaidIffNothingRemains ==
  [][\A id \in DOMAIN payments :
       (resp'.op = "confirmPayment" /\ resp'.id = id /\ resp'.code = 200) =>
         LET remaining == Max(0, payments'[id].amount - payments'[id].paidAmount) IN
         /\ payments'[id].status = IF remaining = 0 THEN "PAID" ELSE "PARTIAL"
         /\ (payments[id].status = "PARTIAL" /\ remaining > 0) => payments'[id].status = "PARTIAL"
         /\ (payments[id].status = "PARTIAL" /\ remaining = 0) => payments'[id].status = "PAID"]_vars

\* a milestone of amount 2 that was PARTIAL after a confirmation of 1 has
\* become PAID by a second confirmation of 1
C17_Witness ==
  /\ resp.op = "confirmPayment" /\ resp.code = 200
  /\ resp.id \in DOMAIN payments
  /\ payments[resp.id].amount = 2
  /\ payments[resp.id].paidAmount = 2
  /\ payments[resp.id].status = "PAID"
  /\ partPayments[resp.id] = SetToBag({1}) (+) SetToBag({1})

\* C18: every change of a lead's stage appends an entry to its stage
\* history, so that after any sequence of create, move-stage, convert, lose
\* and update the stage of the last history entry is the lead's stage.
C18_HistoryFollowsStage ==
  \A id \in DOMAIN leads :
    /\ leads[id].stageHistory # <<>>
    /\ leads[id].stageHistory[Len(leads[id].stageHistory)].stage = leads[id].stage

\* the milestones, and the number of material orders and worker logs, that
\* are in the scope of the overview just answered
MilestonesInScope ==
  {i \in DOMAIN payments : overview'.projectId \in {"", payments[i].projectId}}

NothingInScope ==
  /\ MilestonesInScope = {}
  /\ overview'.projectId = "" => DOMAIN materials = {}
  /\ \A i \in DOMAIN workerLogs : overview'.projectId \notin {"", workerLogs[i].projectId}

\* C19: the overview over a scope without milestones, material orders and
\* worker logs answers 200 with income 0, expense 0, profit 0 and margin 0;
\* and whenever the income is 0 the margin is the number 0.
C19_EmptyOverviewIsZero ==
  [][resp'.op = "overview" =>
       /\ resp'.code = 200
       /\ NothingInScope =>
            /\ overview'.income.total = 0
            /\ overview'.expense.total = 0
            /\ overview'.profit.current = 0
            /\ overview'.profit.margin = [text |-> FALSE, hundredths |-> 0]
       /\ overview'.income.total = 0 =>
            overview'.profit.margin = [text |-> FALSE, hundredths |-> 0]]_vars

\* the overview of a project with a paid worker log and a milestone on
\* which nothing has been paid: no income, a loss, margin 0
C19_Witness ==
  /\ resp.op = "overview" /\ overview.asked /\ overview.projectId = "p1"
  /\ DOMAIN payments # {}
  /\ overview.income.total = 0
  /\ overview.expense.total > 0
  /\ overview.profit.current < 0
  /\ overview.profit.margin = [text |-> FALSE, hundredths |-> 0]

\* C20: in the overview, pending income is the sum over the milestones in
\* scope of max(0, amount - paidAmount), and pending expense is the sum of
\* the material orders' remaining amounts plus the wages of the unpaid
\* worker logs; neither is negative, also when a milestone has been
\* confirmed for more than its amount.
C20_PendingNeverNegative ==
  [][resp'.op = "overview" =>
       /\ overview'.income.pending =
            SumOver(MilestonesInScope,
                    [i \in DOMAIN payments |->
                       Money(Max(0, payments[i].amount - payments[i].paidAmount))], 0)
       /\ overview'.expense.pending =
            SumOver({i \in DOMAIN materials : overview'.projectId = ""},
                    [i \in DOMAIN materials |-> Money(materials[i].remainingAmount)], 0)
            + SumOver({i \in DOMAIN workerLogs :
                         /\ overview'.projectId \in {"", workerLogs[i].projectId}
                         /\ workerLogs[i].status # "PAID"},
                      [i \in DOMAIN workerLogs |-> workerLogs[i].totalWage], 0)
       /\ overview'.income.pending >= 0
       /\ overview'.expense.pending >= 0]_vars

\* C21: once a milestone is PAID, requestAcknowledgment, an accepting
\* clientAcknowledge and confirmPayment do not move its status back to
\* AWAITING_CLIENT, AWAITING_ADMIN or PARTIAL.
C21_PaidIsFinal ==
  [][\A id \in DOMAIN payments :
       (/\ payments[id].status = "PAID"
        /\ resp'.op \in {"requestAcknowledgment", "clientAccept", "confirmPayment"}
        /\ resp'.id = id) =>
         payments'[id].status \notin {"AWAITING_CLIENT", "AWAITING_ADMIN", "PARTIAL"}]_vars

\* C22: a milestone whose status is AWAITING_ADMIN has been acknowledged by
\* the admin and by the client; a client acceptance moves a milestone to
\* AWAITING_ADMIN only from AWAITING_CLIENT.
C22_AwaitingAdminHasBothAcks ==
  /\ \A id \in DOMAIN payments :
       payments[id].status = "AWAITING_ADMIN" =>
         payments[id].adminAcknowledged /\ payments[id].clientAcknowledged
  /\ resp.op = "clientAccept" /\ resp.code = 200 => payments[resp.id].adminAcknowledged

\* C23: a successful confirmPayment appends one PartPayment row, of the
\* amount applied, exactly when the milestone is not fully paid by it or
\* isPartPayment is set, and no row otherwise; paidDate is set exactly when
\* the confirmation makes the milestone fully paid.
C23_PartPaymentRecorded ==
  [][\A id \in DOMAIN payments :
       (resp'.op = "confirmPayment" /\ resp'.id = id /\ resp'.code = 200) =>
         LET full == payments'[id].paidAmount >= payments'[id].amount
             applied == payments'[id].paidAmount - payments[id].paidAmount
         IN /\ partPayments'[id] =
                 IF ~full \/ resp'.body.isPartPayment
                 THEN partPayments[id] (+) SetToBag({applied})
                 ELSE partPayments[id]
            /\ payments'[id].paidDate = full]_vars

\* a confirmation marked isPartPayment has paid a milestone in full: one
\* PartPayment row of the whole amount, and a paidDate
C23_Witness ==
  /\ resp.op = "confirmPayment" /\ resp.code = 200 /\ resp.body.isPartPayment
  /\ resp.id \in DOMAIN payments
  /\ payments[resp.id].status = "PAID" /\ payments[resp.id].paidDate
  /\ payments[resp.id].paidAmount = payments[resp.id].amount
  /\ partPayments[resp.id] = SetToBag({payments[resp.id].amount})

\* the sum of a bag of amounts
SumOfAmounts(amounts) ==
  SumOver(BagToSet(amounts), [a \in BagToSet(amounts) |-> a * CopiesIn(a, amounts)], 0)

\* C24: a payment posting on a material order or a raw-material order adds
\* one child payment row carrying the posted amount and leaves every
\* existing child row as it was; after every posting the paidAmount of each
\* order is the sum of the amounts of its child rows.
C24_PostingsAreRecorded ==
  [][/\ \A id \in DOMAIN materials :
          (resp'.op = "materialPayment" /\ resp'.id = id /\ resp'.code = 200) =>
             /\ \E row \in BagToSet(materialPayments'[id]) :
                   /\ row.amount = resp'.body.amount
                   /\ materialPayments'[id] = materialPayments[id] (+) SetToBag({row})
             /\ \A j \in DOMAIN materials \ {id} : materialPayments'[j] = materialPayments[j]
     /\ \A id \in DOMAIN rawOrders :
          (resp'.op = "rawPayment" /\ resp'.id = id /\ resp'.code = 200) =>
             /\ rawPayments'[id] = rawPayments[id] (+) SetToBag({resp'.body.amount})
             /\ \A j \in DOMAIN rawOrders \ {id} : rawPayments'[j] = rawPayments[j]
     /\ \A id \in DOMAIN materials' :
          materials'[id].paidAmount = AmountOf(materialPayments'[id])
     /\ \A id \in DOMAIN rawOrders' :
          rawOrders'[id].paidAmount = SumOfAmounts(rawPayments'[id])]_vars

\* a raw-material order has been paid by a posting of 1 and a posting of 2
C24_Witness ==
  /\ resp.op = "rawPayment" /\ resp.code = 200
  /\ resp.id \in DOMAIN rawOrders
  /\ rawPayments[resp.id] = SetToBag({1, 2})
  /\ rawOrders[resp.id].paidAmount = 3

\* C28: after any sequence of material-order creations for a vendor and
\* payment postings on those orders, the vendor's totalAmount is its
\* totalPaid plus its pendingAmount, also after a posting that overpays an
\* order.
C28_VendorBalance ==
  \A v \in VendorIds :
    vendors[v].totalAmount = vendors[v].totalPaid + vendors[v].pendingAmount

\* an order of the vendor has been paid more than its total cost: the
\* vendor's pendingAmount is below zero
C28_Witness ==
  /\ resp.op = "materialPayment" /\ resp.code = 200
  /\ resp.id \in DOMAIN materials
  /\ materials[resp.id].vendorId = "v1"
  /\ materials[resp.id].paidAmount > materials[resp.id].totalCost
  /\ vendors["v1"].totalOrders = 1
  /\ vendors["v1"].totalPaid > vendors["v1"].totalAmount
  /\ vendors["v1"].pendingAmount < 0

\* the worker logs dated after instant from and up to instant to
LogsWithin(from, to) ==
  {id \in DOMAIN workerLogs : workerLogs[id].date > from /\ workerLogs[id].date <= to}

\* C25: the weekly workforce trend for N weeks answers N buckets, the k-th
\* of which sums the wages and the worker counts of the logs dated in the
\* k-th of N consecutive 7-day spans that end at the current time; so every
\* log dated within the trailing 7 * N days is counted in exactly one
\* bucket.
C25_WeeksCoverTrailingDays ==
  [][resp'.op = "weeklyWorkforce" =>
       LET weeks == overview'.weeks
           now == overview'.now
           week == 7 * DayTicks
           counted == SumOver(1..weeks, [k \in 1..weeks |-> overview'.data[k].logCount], 0)
       IN /\ Len(overview'.data) = weeks
          /\ \A k \in 1..weeks :
               LET logs == LogsWithin(now - (weeks - k + 1) * week, now - (weeks - k) * week)
               IN /\ overview'.data[k].logCount = Cardinality(logs)
                  /\ overview'.data[k].totalWage =
                       SumOver(logs, [id \in logs |-> workerLogs[id].totalWage], 0)
                  /\ overview'.data[k].workerCount =
                       SumOver(logs, [id \in logs |-> workerLogs[id].count], 0)
          /\ counted = Cardinality(LogsWithin(now - weeks * week, now))]_vars

\* C29: a lead is converted at most once: a convert on a lead that is
\* already converted creates no further project and leaves
\* convertedToProjectId on the project of the first conversion.
C29_ConvertedOnce ==
  [][\A id \in DOMAIN leads :
       (resp'.op = "convertLead" /\ resp'.id = id /\ leads[id].isConverted) =>
         /\ DOMAIN projects' = DOMAIN projects
         /\ leads'[id].convertedToProjectId = leads[id].convertedToProjectId]_vars

\* C26: under create, templated setup, update, requestAcknowledgment,
\* clientAcknowledge and confirmPayment, a milestone with paidAmount > 0 or
\* status PARTIAL or PAID has been acknowledged by the admin and by the
\* client, and no step resets an acknowledgment flag.
C26_PaidImpliesBothAcks ==
  [][/\ \A id \in DOMAIN payments' :
          (payments'[id].paidAmount > 0 \/ payments'[id].status \in {"PARTIAL", "PAID"}) =>
             (payments'[id].adminAcknowledged /\ payments'[id].clientAcknowledged)
     /\ \A id \in DOMAIN payments \cap DOMAIN payments' :
          /\ payments[id].adminAcknowledged => payments'[id].adminAcknowledged
          /\ payments[id].clientAcknowledged => payments'[id].clientAcknowledged]_vars

\* of the two milestones of a templated setup, the second has been paid in
\* full and then given another amount; the first has not been acknowledged
C26_Witness ==
  /\ resp.op = "updatePayment" /\ resp.code = 200 /\ resp.id = 2
  /\ DOMAIN payments = {1, 2}
  /\ payments[2].status = "PAID" /\ payments[2].paidAmount = 2 /\ payments[2].amount = 1
  /\ payments[2].adminAcknowledged /\ payments[2].clientAcknowledged
  /\ payments[1].status = "PENDING" /\ ~payments[1].adminAcknowledged

\* C27: when the confirmPayment requests of two callers on different
\* milestones of a project have all completed, however their reads and
\* writes were interleaved, the project's spent is the sum of paidAmount
\* over the project's milestones.
C27_SpentAfterConcurrentConfirms ==
  (/\ \A c \in CallerIds : inflight[c].pc = "idle" /\ inflight[c].op = "confirmPayment"
   /\ inflight["a"].id # inflight["b"].id)
  => \A p \in ProjectIds : projects[p].spent = TotalPaid(payments, p)

\* C30: a milestone's clientAcknowledged becomes true only by a
\* client-acknowledge request of the client of the milestone's project; the
\* request of another authenticated user (an admin, another customer)
\* neither sets clientAcknowledged nor moves the status to AWAITING_ADMIN.
C30_OnlyOwnClientAcknowledges ==
  [][\A id \in DOMAIN payments \cap DOMAIN payments' :
       LET clientId == projects[payments[id].projectId].clientId IN
       /\ (~payments[id].clientAcknowledged /\ payments'[id].clientAcknowledged) =>
            (resp'.op = "clientAccept" /\ resp'.id = id /\ resp'.user = clientId)
       /\ (resp'.op = "clientAccept" /\ resp'.id = id /\ resp'.user # clientId) =>
            /\ payments'[id].clientAcknowledged = payments[id].clientAcknowledged
            /\ payments'[id].status = payments[id].status]_vars
====
